---- MODULE Spec2Model ----
(***************************************************************************)
(* Request governance of the Kite client: src/Throttle.py (class Throttle) *)
(* and the request path of src/kitetrader/Kite.py (Kite.__init__,          *)
(* Kite._authorize, Kite._req and the endpoint methods).                   *)
(*                                                                         *)
(* The specifications share the variables:                                 *)
(*   SpecThrottle  a Throttle object on its own, built from a config dict  *)
(*                 and a penalty limit, driven by check / penalise calls   *)
(*                 of one caller with a clock that advances between them;  *)
(*   SpecUptime    a Throttle whose checks come after a long uptime;       *)
(*   SpecConc      a Throttle shared by threads, one action per read or    *)
(*                 write of a shared value;                                *)
(*   Spec          the Kite module: th = Throttle(throttle_config, 15) and *)
(*                 one caller that constructs clients and calls endpoint   *)
(*                 methods, with the HTTP transport answering each request;*)
(*   SpecReq       Kite._req called with each of its methods.              *)
(*                                                                         *)
(* Time is counted in ticks, TicksPerSec ticks to the second (the source   *)
(* counts nanoseconds).  time.sleep(d) advances the clock by exactly d.    *)
(* A Python dict is a function with a string domain, so that a missing key *)
(* is a missing element of DOMAIN, as in the source.                       *)
(***************************************************************************)
EXTENDS Integers, Sequences, FiniteSets, TLC

VARIABLES
    config,             \* Throttle.config: key -> dict (rps, rpm, start, count)
    max_penalty_count,  \* Throttle.max_penalty_count
    penalty_count,      \* Throttle.penalty_count
    now,                \* time_ns(), in ticks
    calls,              \* SpecThrottle, history: key -> check(key) calls made
    lastCheck,          \* SpecThrottle, history: what the last check call did
    penalises,          \* SpecThrottle, history: penalise() calls made
    lastPenalise,       \* SpecThrottle, history: what the last penalise returned
    pace,               \* SpecThrottle, history: key -> how the caller has
                        \* spaced its check(key) calls (see Paced)
    thread,             \* SpecConc: caller -> its position inside check or
                        \* penalise, the key it passed, the value it has
                        \* read and the clock reading at which its sleep ends
    waited,             \* SpecConc, history: key -> check(key) calls that
                        \* took a boundary wait
    cookie_path,        \* the file kite_cookies: "absent", "fresh", "expired"
    Authorization,      \* session.headers["Authorization"] of the client
    _type,              \* Kite._type
    client,             \* the Kite object: "none", "constructing", "ready"
    pc,                 \* position of the caller inside _req / _authorize
    call,               \* the _req call in progress or last made, with the
                        \* status it received (0: none)
    outcome,            \* how the last operation ended
    nTransport,         \* history, per _req call: transport invocations
    nSleep,             \* history, per call: sleeps performed
    nPenalty,           \* history, per call: penalty_count increments
    nDelete,            \* history, per call: runs of the deletion (Kite.py 253-254)
    nUnlink,            \* history, per call: cookie_path.unlink() calls
    n429,               \* history: number of _req calls that received 429
    expired,            \* history: a 403 was received and no login completed since
    checked             \* history, per call: th.check returned ahead of self._req

throttleVars == <<config, max_penalty_count, penalty_count, now>>
throttleHist == <<calls, lastCheck, penalises, lastPenalise, pace, thread,
                  waited>>
kiteVars == <<cookie_path, Authorization, _type, client, pc, call, outcome>>
kiteHist == <<nTransport, nSleep, nPenalty, nDelete, nUnlink, n429, expired,
              checked>>
vars == <<throttleVars, throttleHist, kiteVars, kiteHist>>

----------------------------------------------------------------------------
(* Bounds of the model *)

\* ticks to the second
TicksPerSec == 2
\* the clock advances on its own only up to this reading
MaxTime == 3
\* a Throttle is constructed at a clock reading in 0..MaxBoot
MaxBoot == 1
\* check(key) is called at least MinCalls times, and for one whole period
\* (rpm calls, or rps calls without rpm)
MinCalls == 6
\* penalty limits 0..MaxPenaltyInput are tried beside the shipped one
MaxPenaltyInput == 2
\* a check(key) call that raises is made at most MaxRaising times per key
MaxRaising == 1
\* penalise() is called at most max_penalty_count + ExtraPenalties times
ExtraPenalties == 1
\* at most Max429 requests are answered 429
Max429 == 2
\* significant bits of a float (the source's floats have 53); with
\* TicksPerSec ticks to the second the quotients of SpecThrottle and Spec
\* are exact in MantBits bits, as the source's are for months of uptime
MantBits == 10
\* SpecUptime: the process has been up for at most MaxElapsed ticks when
\* check is called
MaxElapsed == 1100
\* SpecConc: NCallers threads share the Throttle; together they start at
\* most ConcCalls check calls per category and ConcPenalties penalise calls
NCallers == 2
ConcCalls == 3
ConcPenalties == 2

----------------------------------------------------------------------------
(* src/Throttle.py *)

sec == TicksPerSec
_min == sec * 60

\* The binary exponent of num / den, for num > 0 and den > 0: the e with
\* 2^e <= num / den < 2^(e+1)
RECURSIVE ExponentOf(_, _)
ExponentOf(num, den) ==
    IF num >= 2 * den THEN ExponentOf(num, 2 * den) + 1
    ELSE IF num < den THEN ExponentOf(2 * num, den) - 1
    ELSE 0

\* num / den rounded to the nearest integer, a tie to the even one
RoundHalfEven(num, den) ==
    LET t == num \div den
        r == num % den
    IN  IF 2 * r > den \/ (2 * r = den /\ t % 2 = 1) THEN t + 1 ELSE t

\* x / base for x > 0: the quotient of two ints as a float, correctly
\* rounded to MantBits significant bits.  The float is n * 2^(-scale).
TrueDiv(x, base) ==
    LET scale == MantBits - 1 - ExponentOf(x, base)
    IN  IF scale >= 0
        THEN [n |-> RoundHalfEven(x * 2^scale, base), scale |-> scale]
        ELSE [n |-> RoundHalfEven(x, base * 2^(-scale)), scale |-> scale]

\* float.__ceil__ and the floor, of the float n * 2^(-scale)
Ceil(f) ==
    IF f.scale >= 0 THEN -((-f.n) \div 2^f.scale) ELSE f.n * 2^(-f.scale)

Floor(f) ==
    IF f.scale >= 0 THEN f.n \div 2^f.scale ELSE f.n * 2^(-f.scale)

\* Throttle.round with the ceiling of the exact quotient.
round_exact(x, base) == (-((-x) \div base)) * base

\* Throttle.round: (x / base).__ceil__() * base.  The quotient is a float:
\* its ceiling is the ceiling of the exact quotient only as long as the
\* float tells the quotient from the whole number below it.
round(x, base) ==
    IF x = 0 THEN 0
    ELSE IF x > 0 THEN Ceil(TrueDiv(x, base)) * base
    ELSE (-Floor(TrueDiv(-x, base))) * base

\* Throttle.__init__: every dict of config gets 'start'; nothing else is set.
Throttle(cfg, max, ts) ==
    [config |-> [key \in DOMAIN cfg |-> ("start" :> ts) @@ cfg[key]],
     max_penalty_count |-> max,
     penalty_count |-> 0]

\* Throttle.penalise comparing with >= in place of >.
penalise_strict(count, max) ==
    [penalty_count |-> count + 1,
     slept |-> sec,
     ret |-> count + 1 >= max]

\* Throttle.penalise: the new counter, the sleep and the return value.
penalise(count, max) ==
    [penalty_count |-> count + 1,
     slept |-> sec,
     ret |-> count + 1 > max]

\* The argument of a call th.check() that passes no key.
NoArg == "<no argument>"

\* check raising ahead of every write
Raised(exc, arg, cfg) ==
    [raised |-> exc, arg |-> arg, config |-> cfg, waits |-> <<>>, slept |-> 0]

\* Throttle.check without the return of the per-minute branch: the
\* per-second test runs after the per-minute sleep.
check_fallthrough(cfg, key, t) ==
    IF key = NoArg THEN Raised("TypeError", "key", cfg)
    ELSE IF key \notin DOMAIN cfg THEN Raised("KeyError", key, cfg)
    ELSE IF "count" \notin DOMAIN cfg[key] THEN Raised("KeyError", "count", cfg)
    ELSE LET k == [cfg[key] EXCEPT !.count = @ + 1]
             cfg2 == [cfg EXCEPT ![key] = k]
             e1 == t - k.start
             d1 == IF "rpm" \in DOMAIN k /\ k.count % k.rpm = 0
                   THEN round(e1, _min) - e1 ELSE 0
             w1 == IF "rpm" \in DOMAIN k /\ k.count % k.rpm = 0
                   THEN <<"min">> ELSE <<>>
             e2 == e1 + d1
         IN  IF k.count % k.rps = 0
             THEN [raised |-> "none", arg |-> key, config |-> cfg2,
                   waits |-> Append(w1, "sec"),
                   slept |-> d1 + round(e2, sec) - e2]
             ELSE [raised |-> "none", arg |-> key, config |-> cfg2,
                   waits |-> w1, slept |-> d1]

\* Throttle.check looking the category up with a fallback to 'default'
\* (self.config.get(key, self.config['default'])).
check_get_default(cfg, key, t) ==
    IF key = NoArg THEN Raised("TypeError", "key", cfg)
    ELSE LET name == IF key \in DOMAIN cfg THEN key ELSE "default"
         IN  IF name \notin DOMAIN cfg THEN Raised("KeyError", key, cfg)
             ELSE IF "count" \notin DOMAIN cfg[name]
             THEN Raised("KeyError", "count", cfg)
             ELSE LET k == [cfg[name] EXCEPT !.count = @ + 1]
                      cfg2 == [cfg EXCEPT ![name] = k]
                      elapsed_time == t - k.start
                  IN  IF "rpm" \in DOMAIN k /\ k.count % k.rpm = 0
                      THEN [raised |-> "none", arg |-> key, config |-> cfg2,
                            waits |-> <<"min">>,
                            slept |-> round(elapsed_time, _min) - elapsed_time]
                      ELSE IF k.count % k.rps = 0
                      THEN [raised |-> "none", arg |-> key, config |-> cfg2,
                            waits |-> <<"sec">>,
                            slept |-> round(elapsed_time, sec) - elapsed_time]
                      ELSE [raised |-> "none", arg |-> key, config |-> cfg2,
                            waits |-> <<>>, slept |-> 0]

\* sleep(tt / self.sec) inside check, the count already written: time.sleep
\* raises ValueError for a negative length.
sleep(cfg, key, wait, tt) ==
    IF tt < 0
    THEN [raised |-> "ValueError", arg |-> "sleep length", config |-> cfg,
          waits |-> <<wait>>, slept |-> 0]
    ELSE [raised |-> "none", arg |-> key, config |-> cfg,
          waits |-> <<wait>>, slept |-> tt]

\* Throttle.check taking its waits at the multiples of rps + 1 and rpm + 1.
check_offbyone(cfg, key, t) ==
    IF key = NoArg THEN Raised("TypeError", "key", cfg)
    ELSE IF key \notin DOMAIN cfg THEN Raised("KeyError", key, cfg)
    ELSE IF "count" \notin DOMAIN cfg[key] THEN Raised("KeyError", "count", cfg)
    ELSE LET k == [cfg[key] EXCEPT !.count = @ + 1]
             cfg2 == [cfg EXCEPT ![key] = k]
             elapsed_time == t - k.start
         IN  IF "rpm" \in DOMAIN k /\ k.count % (k.rpm + 1) = 0
             THEN sleep(cfg2, key, "min",
                        round(elapsed_time, _min) - elapsed_time)
             ELSE IF k.count % (k.rps + 1) = 0
             THEN sleep(cfg2, key, "sec",
                        round(elapsed_time, sec) - elapsed_time)
             ELSE [raised |-> "none", arg |-> key, config |-> cfg2,
                   waits |-> <<>>, slept |-> 0]

\* Throttle.check(key) called at clock reading t: the exception it raises
\* (or "none"), the config it leaves, the waits it takes in order and the
\* time it sleeps.  A call without a key is a TypeError (key has no
\* default); self.config[key] and k['count'] are KeyErrors when missing.
check(cfg, key, t) ==
    IF key = NoArg THEN Raised("TypeError", "key", cfg)
    ELSE IF key \notin DOMAIN cfg THEN Raised("KeyError", key, cfg)
    ELSE IF "count" \notin DOMAIN cfg[key] THEN Raised("KeyError", "count", cfg)
    ELSE LET k == [cfg[key] EXCEPT !.count = @ + 1]
             cfg2 == [cfg EXCEPT ![key] = k]
             elapsed_time == t - k.start
         IN  IF "rpm" \in DOMAIN k /\ k.count % k.rpm = 0
             THEN sleep(cfg2, key, "min",
                        round(elapsed_time, _min) - elapsed_time)
             ELSE IF k.count % k.rps = 0
             THEN sleep(cfg2, key, "sec",
                        round(elapsed_time, sec) - elapsed_time)
             ELSE [raised |-> "none", arg |-> key, config |-> cfg2,
                   waits |-> <<>>, slept |-> 0]

----------------------------------------------------------------------------
(* src/kitetrader/Kite.py: the module-level configuration *)

throttle_config ==
    [quote |-> [rps |-> 1],
     historical |-> [rps |-> 3],
     order |-> [rps |-> 8, rpm |-> 180],
     default |-> [rps |-> 8]]

\* th = Throttle(throttle_config, 15)
ShippedMaxPenalty == 15

\* The attributes class Throttle defines, and the one _req calls on th.
ThrottleMethods == {"round", "penalise", "check"}

PenaliseName == "penalize"

\* The statuses the transport answers with.  The session follows
\* redirects, so the answers drawn are 2xx, 4xx and 5xx.
Statuses == {200, 204, 400, 403, 429, 500}

\* Response.ok accepting the status 200 alone.
ok_only200(code) == code = 200

\* r.ok: the status is below 400.
ok(code) == code < 400

\* _req with POST falling through to the final session.get as well.
_req_send_fallthrough(method) ==
    [invocations |-> IF method = "POST" THEN 2 ELSE 1,
     timeout |-> method # "DELETE"]

\* _req, the transport call: one of session.put / delete / post / get is
\* invoked once; session.delete is the one called without a timeout.
_req_send(method) ==
    [invocations |-> 1,
     timeout |-> method # "DELETE"]

\* What _req raises, as (exception, status, reason): the reason is the
\* upstream's r.reason or one of the two fixed texts.
Exc(kind, code, reason) == [kind |-> kind, code |-> code, reason |-> reason]

Quiet(o, count, cookie) ==
    [outcome |-> o, penalty_count |-> count, cookie_path |-> cookie,
     sleeps |-> 0, slept |-> 0, penalised |-> 0, deleted |-> 0, unlinked |-> 0]

\* _req with the 403 branch raising without touching the cookie file.
_req_respond_keep(code, count, max, cookie) ==
    IF ok(code) THEN Quiet(Exc("Response", code, "upstream"), count, cookie)
    ELSE IF code = 429 /\ PenaliseName \notin ThrottleMethods
    THEN Quiet(Exc("AttributeError", code, PenaliseName), count, cookie)
    ELSE IF code = 429
    THEN LET p == penalise(count, max)
         IN  [Quiet(IF p.ret THEN Exc("RuntimeError", code, "upstream")
                             ELSE Exc("ConnectionError", code, "upstream"),
                    p.penalty_count, cookie)
              EXCEPT !.sleeps = 1, !.slept = p.slept, !.penalised = 1]
    ELSE IF code = 403
    THEN Quiet(Exc("ConnectionError", code, "relogin"), count, cookie)
    ELSE IF code = 400
    THEN Quiet(Exc("ConnectionError", code, "badparams"), count, cookie)
    ELSE Quiet(Exc("ConnectionError", code, "upstream"), count, cookie)

\* _req from r.ok on: the response of status code is classified, with
\* penalty_count = count, max_penalty_count = max and the cookie file in
\* state cookie.  th.penalize() is an AttributeError unless Throttle
\* defines that name.  The deletion (if exists: unlink) runs once on a 403
\* and unlinks when the file is there.
_req_respond(code, count, max, cookie) ==
    IF ok(code) THEN Quiet(Exc("Response", code, "upstream"), count, cookie)
    ELSE IF code = 429 /\ PenaliseName \notin ThrottleMethods
    THEN Quiet(Exc("AttributeError", code, PenaliseName), count, cookie)
    ELSE IF code = 429
    THEN LET p == penalise(count, max)
         IN  [Quiet(IF p.ret THEN Exc("RuntimeError", code, "upstream")
                             ELSE Exc("ConnectionError", code, "upstream"),
                    p.penalty_count, cookie)
              EXCEPT !.sleeps = 1, !.slept = p.slept, !.penalised = 1]
    ELSE IF code = 403
    THEN [Quiet(Exc("ConnectionError", code, "relogin"), count, "absent")
          EXCEPT !.deleted = 1,
                 !.unlinked = IF cookie # "absent" THEN 1 ELSE 0]
    ELSE IF code = 400
    THEN Quiet(Exc("ConnectionError", code, "badparams"), count, cookie)
    ELSE Quiet(Exc("ConnectionError", code, "upstream"), count, cookie)

\* The failure kinds, as the exceptions _req raises for them.
RateLimitExceeded(o) == o.kind = "RuntimeError" /\ o.code = 429

UpstreamRejected(o) ==
    o.kind = "ConnectionError" /\ o.code = 429 /\ o.reason = "upstream"

SessionExpired(o) ==
    o.kind = "ConnectionError" /\ o.code = 403 /\ o.reason = "relogin"

BadRequest(o) ==
    o.kind = "ConnectionError" /\ o.code = 400 /\ o.reason = "badparams"

UpstreamError(o) ==
    /\ o.kind = "ConnectionError"
    /\ o.code \notin {400, 403, 429}
    /\ o.reason = "upstream"

Timeout(o) == o.kind = "TimeoutError"

\* check raised KeyError on the category name itself
UnknownCategory(o) ==
    o.kind = "KeyError" /\ o.reason \notin {"count", "rps"}

\* The endpoint methods: the key each passes to th.check (NoArg where the
\* call is th.check()), and the method and hint it passes to _req.
\* Argument validation ahead of th.check is left out.  The source of
\* order_trades ends with its th.check call.
Endpoints ==
    {[name |-> "instruments", key |-> NoArg, method |-> "GET"],
     [name |-> "quote", key |-> "quote", method |-> "GET"],
     [name |-> "ohlc", key |-> "quote", method |-> "GET"],
     [name |-> "ltp", key |-> "quote", method |-> "GET"],
     [name |-> "holdings", key |-> NoArg, method |-> "GET"],
     [name |-> "positions", key |-> NoArg, method |-> "GET"],
     [name |-> "auctions", key |-> NoArg, method |-> "GET"],
     [name |-> "margins", key |-> NoArg, method |-> "GET"],
     [name |-> "profile", key |-> NoArg, method |-> "GET"],
     [name |-> "historical_data", key |-> "historical", method |-> "GET"],
     [name |-> "place_order", key |-> "order", method |-> "POST"],
     [name |-> "modify_order", key |-> "order", method |-> "PUT"],
     [name |-> "cancel_order", key |-> "order", method |-> "DELETE"],
     [name |-> "orders", key |-> "order", method |-> "GET"],
     [name |-> "order_history", key |-> "order", method |-> "GET"],
     [name |-> "trades", key |-> NoArg, method |-> "GET"],
     [name |-> "order_trades", key |-> "orders", method |-> "GET"]}

\* The hints of the requests _authorize makes.
LoginHints == {"API_LOGIN", "WEB_LOGIN", "TwoFA"}

\* The arguments of Kite(...) that decide its path: which of enctoken,
\* access_token and api_key are given, and whether request_token and
\* api_secret both are.
InitArgs ==
    [enctoken : BOOLEAN, access_token : BOOLEAN, api_key : BOOLEAN,
     request_token : BOOLEAN]

----------------------------------------------------------------------------
(* SpecThrottle: a Throttle object on its own *)

\* A caller's config dict that carries 'count': 0 beside the ceilings.
WithCount(cfg) == [key \in DOMAIN cfg |-> ("count" :> 0) @@ cfg[key]]

\* The constructor's inputs.  The counters of check and of penalise are
\* independent, so each input exercises one of them: the shipped
\* configuration as it is, the shipped order category with a count, and
\* small configurations with a count (ceilings 1 and 3 per second; a
\* per-minute ceiling that is, and one that is not, a multiple of the
\* per-second one) under the smallest penalty limit; and one category
\* under the penalty limits 0..MaxPenaltyInput and the shipped one.
ThrottleInputs ==
    {[config |-> c, max |-> 0] :
        c \in {throttle_config,
               WithCount([order |-> throttle_config.order]),
               WithCount([quote |-> throttle_config.quote,
                          historical |-> throttle_config.historical]),
               WithCount([a |-> [rps |-> 2, rpm |-> 4]]),
               WithCount([b |-> [rps |-> 2, rpm |-> 3]])}}
    \cup
    {[config |-> [default |-> throttle_config.default], max |-> p] :
        p \in (0..MaxPenaltyInput) \cup {ShippedMaxPenalty}}

\* The keys callers pass: the registered ones and an unregistered one.
CheckKeys == DOMAIN config \cup {"orders"}

Period(k) == IF "rpm" \in DOMAIN k THEN k.rpm ELSE k.rps

\* The categories with rps and no rpm (and a count to increment)
RpsOnly ==
    {key \in DOMAIN config :
        "count" \in DOMAIN config[key] /\ "rpm" \notin DOMAIN config[key]}

\* How often check(key) is called: a call that raises changes nothing,
\* and is made MaxRaising times.
CallCap(key) ==
    IF key \in DOMAIN config /\ "count" \in DOMAIN config[key]
    THEN IF Period(config[key]) > MinCalls
         THEN Period(config[key]) ELSE MinCalls
    ELSE MaxRaising

Callers == 1..NCallers

\* A caller that is inside neither check nor penalise
IdleThread == [pc |-> "idle", key |-> NoArg, tmp |-> 0, wake |-> 0]

\* No caller is inside the Throttle and no wait has been taken
NoThreads ==
    /\ thread = [t \in Callers |-> IdleThread]
    /\ waited = [key \in CheckKeys |-> 0]

NoCheck == [key |-> NoArg, n |-> 0, raised |-> "none", arg |-> NoArg,
            waits |-> <<>>, slept |-> 0, at |-> 0]

NoCall == [hint |-> "none", method |-> "none", timeout |-> FALSE, status |-> 0]

NoOutcome == [kind |-> "none", code |-> 0, reason |-> "none"]

\* No client has been constructed and no call made.
KiteIdle ==
    /\ Authorization = "none"
    /\ _type = "KITE_CONNECT"
    /\ client = "none"
    /\ pc = "idle"
    /\ call = NoCall
    /\ outcome = NoOutcome
    /\ nTransport = 0
    /\ nSleep = 0
    /\ nPenalty = 0
    /\ nDelete = 0
    /\ nUnlink = 0
    /\ n429 = 0
    /\ expired = FALSE
    /\ checked = FALSE

InitThrottle ==
    /\ \E in \in ThrottleInputs, ts \in 0..MaxBoot :
         LET th == Throttle(in.config, in.max, ts)
         IN  /\ config = th.config
             /\ max_penalty_count = th.max_penalty_count
             /\ penalty_count = th.penalty_count
             /\ now = ts
    /\ calls = [key \in CheckKeys |-> 0]
    /\ lastCheck = NoCheck
    /\ penalises = 0
    /\ lastPenalise = FALSE
    /\ pace = [key \in CheckKeys |-> "idle"]
    /\ NoThreads
    /\ cookie_path = "absent"
    /\ KiteIdle

\* The caller's spacing of its calls of one category: "idle" when the
\* clock has advanced since the last check of the category returned (or
\* none was made), "returned" when it has not, and "rushed" once a check
\* was made in "returned".  called: this step is a check of the category
\* that returned; slept: the time by which this step advances the clock.
Paced(p, called, slept) ==
    IF called
    THEN IF p = "idle" THEN "returned" ELSE "rushed"
    ELSE IF p = "returned" /\ slept > 0 THEN "idle" ELSE p

\* A call of th.check(key)
Check(key) ==
    /\ calls[key] < CallCap(key)
    /\ LET r == check(config, key, now)
       IN  /\ config' = r.config
           /\ now' = now + r.slept
           /\ calls' = [calls EXCEPT ![key] = @ + 1]
           /\ lastCheck' = [key |-> key, n |-> calls[key] + 1,
                            raised |-> r.raised, arg |-> r.arg,
                            waits |-> r.waits, slept |-> r.slept,
                            at |-> now]
           /\ pace' = [other \in DOMAIN pace |->
                          Paced(pace[other],
                                other = key /\ r.raised = "none", r.slept)]
    /\ UNCHANGED <<max_penalty_count, penalty_count, penalises, lastPenalise>>
    /\ UNCHANGED <<thread, waited, kiteVars, kiteHist>>

\* A call of th.penalise()
Penalise ==
    /\ penalises < max_penalty_count + ExtraPenalties
    /\ LET r == penalise(penalty_count, max_penalty_count)
       IN  /\ penalty_count' = r.penalty_count
           /\ now' = now + r.slept
           /\ lastPenalise' = r.ret
           /\ pace' = [key \in DOMAIN pace |-> Paced(pace[key], FALSE, r.slept)]
    /\ penalises' = penalises + 1
    /\ UNCHANGED <<config, max_penalty_count, calls, lastCheck>>
    /\ UNCHANGED <<thread, waited, kiteVars, kiteHist>>

\* The clock advances between calls: up to MaxTime, and after a check of
\* a category without rpm has returned
Tick ==
    /\ \/ now < MaxTime
       \/ \E key \in RpsOnly : pace[key] = "returned"
    /\ now' = now + 1
    /\ pace' = [key \in DOMAIN pace |-> Paced(pace[key], FALSE, 1)]
    /\ UNCHANGED <<config, max_penalty_count, penalty_count>>
    /\ UNCHANGED <<calls, lastCheck, penalises, lastPenalise>>
    /\ UNCHANGED <<thread, waited, kiteVars, kiteHist>>

NextThrottle ==
    \/ \E key \in CheckKeys : Check(key)
    \/ Penalise
    \/ Tick

SpecThrottle == InitThrottle /\ [][NextThrottle]_vars

----------------------------------------------------------------------------
(* SpecUptime: a Throttle whose first check comes after the process has   *)
(* been up for a long time                                                *)

\* Categories in which every call (quote) or every second and fourth call
\* (a) computes a sleep
UptimeInputs ==
    {WithCount([quote |-> throttle_config.quote]),
     WithCount([a |-> [rps |-> 2, rpm |-> 4]])}

InitUptime ==
    /\ \E c \in UptimeInputs :
         LET th == Throttle(c, ShippedMaxPenalty, 0)
         IN  /\ config = th.config
             /\ max_penalty_count = th.max_penalty_count
             /\ penalty_count = th.penalty_count
             /\ now = 0
    /\ calls = [key \in CheckKeys |-> 0]
    /\ lastCheck = NoCheck
    /\ penalises = 0
    /\ lastPenalise = FALSE
    /\ pace = [key \in CheckKeys |-> "idle"]
    /\ NoThreads
    /\ cookie_path = "absent"
    /\ KiteIdle

\* The process runs for x ticks before it calls check
Uptime(x) ==
    /\ now = 0
    /\ \A key \in DOMAIN calls : calls[key] = 0
    /\ now' = x
    /\ UNCHANGED <<config, max_penalty_count, penalty_count>>
    /\ UNCHANGED <<throttleHist, kiteVars, kiteHist>>

NextUptime ==
    \/ \E x \in 1..MaxElapsed : Uptime(x)
    \/ \E key \in DOMAIN config : Check(key)

SpecUptime == InitUptime /\ [][NextUptime]_vars

----------------------------------------------------------------------------
(* SpecConc: NCallers threads call check and penalise on one Throttle.    *)
(* The class takes no lock, so a thread switch can fall between any two   *)
(* reads and writes of a shared value: each action is one read or one     *)
(* write of count or penalty_count with the thread's own work around it;  *)
(* sleep lets the other callers run.                                      *)

ConcInputs ==
    {WithCount([historical |-> throttle_config.historical])}

InitConc ==
    /\ \E c \in ConcInputs :
         LET th == Throttle(c, ShippedMaxPenalty, 0)
         IN  /\ config = th.config
             /\ max_penalty_count = th.max_penalty_count
             /\ penalty_count = th.penalty_count
             /\ now = 0
    /\ calls = [key \in CheckKeys |-> 0]
    /\ lastCheck = NoCheck
    /\ penalises = 0
    /\ lastPenalise = FALSE
    /\ pace = [key \in CheckKeys |-> "idle"]
    /\ NoThreads
    /\ cookie_path = "absent"
    /\ KiteIdle

\* The callers that are inside a call of the kind whose positions are pcs
\* (and, for check, passed key)
Inside(pcs, key) ==
    {t \in Callers : thread[t].pc \in pcs /\ thread[t].key = key}

CheckPcs == {"check_write", "check_test", "check_sleep"}
PenalisePcs == {"penalise_write", "penalise_sleep"}

\* check, line 38 and the read of k['count'] += 1
CheckRead(t, key) ==
    /\ thread[t].pc = "idle"
    /\ "count" \in DOMAIN config[key]
    /\ calls[key] + Cardinality(Inside(CheckPcs, key)) < ConcCalls
    /\ thread' = [thread EXCEPT ![t] =
                     [pc |-> "check_write", key |-> key,
                      tmp |-> config[key].count, wake |-> 0]]
    /\ UNCHANGED <<throttleVars, calls, lastCheck, penalises, lastPenalise,
                   pace, waited, kiteVars, kiteHist>>

\* check, the write of k['count'] += 1
CheckWrite(t) ==
    /\ thread[t].pc = "check_write"
    /\ config' = [config EXCEPT ![thread[t].key].count = thread[t].tmp + 1]
    /\ thread' = [thread EXCEPT ![t].pc = "check_test"]
    /\ UNCHANGED <<max_penalty_count, penalty_count, now, calls, lastCheck,
                   penalises, lastPenalise, pace, waited, kiteVars, kiteHist>>

\* check, lines 41-49: k['count'] is read again for the boundary tests;
\* on a boundary the clock is read and the sleep begins, else check returns
CheckTest(t) ==
    /\ thread[t].pc = "check_test"
    /\ LET key == thread[t].key
           k == config[key]
           elapsed_time == now - k.start
           tt == IF "rpm" \in DOMAIN k /\ k.count % k.rpm = 0
                 THEN round(elapsed_time, _min) - elapsed_time
                 ELSE IF k.count % k.rps = 0
                 THEN round(elapsed_time, sec) - elapsed_time
                 ELSE -1
       IN  IF tt >= 0
           THEN /\ thread' = [thread EXCEPT ![t].pc = "check_sleep",
                                            ![t].wake = now + tt]
                /\ waited' = [waited EXCEPT ![key] = @ + 1]
                /\ UNCHANGED calls
           ELSE /\ thread' = [thread EXCEPT ![t] = IdleThread]
                /\ calls' = [calls EXCEPT ![key] = @ + 1]
                /\ UNCHANGED waited
    /\ UNCHANGED <<throttleVars, lastCheck, penalises, lastPenalise, pace,
                   kiteVars, kiteHist>>

\* check, the sleep is over and check returns
CheckReturn(t) ==
    /\ thread[t].pc = "check_sleep"
    /\ now >= thread[t].wake
    /\ thread' = [thread EXCEPT ![t] = IdleThread]
    /\ calls' = [calls EXCEPT ![thread[t].key] = @ + 1]
    /\ UNCHANGED <<throttleVars, lastCheck, penalises, lastPenalise, pace,
                   waited, kiteVars, kiteHist>>

\* penalise, the read of self.penalty_count += 1
PenaliseRead(t) ==
    /\ thread[t].pc = "idle"
    /\ penalises + Cardinality(Inside(PenalisePcs, NoArg)) < ConcPenalties
    /\ thread' = [thread EXCEPT ![t] =
                     [pc |-> "penalise_write", key |-> NoArg,
                      tmp |-> penalty_count, wake |-> 0]]
    /\ UNCHANGED <<throttleVars, calls, lastCheck, penalises, lastPenalise,
                   pace, waited, kiteVars, kiteHist>>

\* penalise, the write of self.penalty_count += 1, and sleep(1) begins
PenaliseWrite(t) ==
    /\ thread[t].pc = "penalise_write"
    /\ penalty_count' = thread[t].tmp + 1
    /\ thread' = [thread EXCEPT ![t].pc = "penalise_sleep",
                                ![t].wake = now + sec]
    /\ UNCHANGED <<config, max_penalty_count, now, calls, lastCheck,
                   penalises, lastPenalise, pace, waited, kiteVars, kiteHist>>

\* penalise, the sleep is over: penalty_count is read again and compared
PenaliseReturn(t) ==
    /\ thread[t].pc = "penalise_sleep"
    /\ now >= thread[t].wake
    /\ thread' = [thread EXCEPT ![t] = IdleThread]
    /\ lastPenalise' = (penalty_count > max_penalty_count)
    /\ penalises' = penalises + 1
    /\ UNCHANGED <<throttleVars, calls, lastCheck, pace, waited, kiteVars,
                   kiteHist>>

\* The clock advances while a caller sleeps
TickConc ==
    /\ \E t \in Callers :
          /\ thread[t].pc \in {"check_sleep", "penalise_sleep"}
          /\ thread[t].wake > now
    /\ now' = now + 1
    /\ UNCHANGED <<config, max_penalty_count, penalty_count, throttleHist,
                   kiteVars, kiteHist>>

NextConc ==
    \/ \E t \in Callers, key \in DOMAIN config : CheckRead(t, key)
    \/ \E t \in Callers : CheckWrite(t)
    \/ \E t \in Callers : CheckTest(t)
    \/ \E t \in Callers : CheckReturn(t)
    \/ \E t \in Callers : PenaliseRead(t)
    \/ \E t \in Callers : PenaliseWrite(t)
    \/ \E t \in Callers : PenaliseReturn(t)
    \/ TickConc

SpecConc == InitConc /\ [][NextConc]_vars

----------------------------------------------------------------------------
(* Spec: the Kite module, one caller *)

Init ==
    /\ LET th == Throttle(throttle_config, ShippedMaxPenalty, 0)
       IN  /\ config = th.config
           /\ max_penalty_count = th.max_penalty_count
           /\ penalty_count = th.penalty_count
           /\ now = 0
    /\ calls = [key \in CheckKeys |-> 0]
    /\ lastCheck = NoCheck
    /\ penalises = 0
    /\ lastPenalise = FALSE
    /\ pace = [key \in CheckKeys |-> "idle"]
    /\ NoThreads
    /\ cookie_path \in {"absent", "fresh", "expired"}
    /\ KiteIdle

\* self._req(url, method, ...) up to the transport call; slept is the
\* number of sleeps the caller made ahead of it in th.check.
ReqStart(hint, method, slept) ==
    LET s == _req_send(method)
    IN  /\ pc' = "inflight"
        /\ call' = [hint |-> hint, method |-> method,
                    timeout |-> s.timeout, status |-> 0]
        /\ nTransport' = s.invocations
        /\ nSleep' = slept
        /\ nPenalty' = 0
        /\ nDelete' = 0
        /\ nUnlink' = 0
        /\ UNCHANGED <<outcome, n429, expired>>

\* An operation that ends without a request
NoRequest(o) ==
    /\ pc' = "idle"
    /\ call' = NoCall
    /\ outcome' = o
    /\ nTransport' = 0
    /\ nSleep' = 0
    /\ nPenalty' = 0
    /\ nDelete' = 0
    /\ nUnlink' = 0
    /\ checked' = FALSE
    /\ UNCHANGED n429

\* Kite.__init__ returns with the Authorization header set
Ready(header, type) ==
    /\ Authorization' = header
    /\ _type' = type
    /\ client' = "ready"
    /\ expired' = FALSE

\* Kite.__init__ has not set, or does not get to set, the header
NoSession(state) ==
    /\ Authorization' = "none"
    /\ _type' = "KITE_CONNECT"
    /\ client' = state

\* Kite(...): Kite.__init__ up to its return, its ValueError or the first
\* request of _authorize
KiteInit(a) ==
    /\ pc = "idle"
    /\ IF a.enctoken
       THEN /\ Ready("enctoken", "KITE_WEB")
            /\ NoRequest(Exc("Constructed", 0, "enctoken"))
            /\ UNCHANGED cookie_path
       ELSE IF a.access_token
       THEN /\ IF a.api_key
               THEN /\ Ready("token", "KITE_CONNECT")
                    /\ NoRequest(Exc("Constructed", 0, "access_token"))
               ELSE /\ NoSession("none")
                    /\ NoRequest(Exc("ValueError", 0, "api_key"))
                    /\ UNCHANGED expired
            /\ UNCHANGED cookie_path
       ELSE IF cookie_path = "fresh"
       THEN /\ Ready("enctoken", "KITE_WEB")
            /\ NoRequest(Exc("Constructed", 0, "cookie"))
            /\ UNCHANGED cookie_path
       ELSE /\ cookie_path' = "absent"
            /\ IF a.request_token /\ ~a.api_key
               THEN /\ NoSession("none")
                    /\ NoRequest(Exc("ValueError", 0, "api_key"))
                    /\ UNCHANGED expired
               ELSE /\ NoSession("constructing")
                    /\ ReqStart(IF a.request_token THEN "API_LOGIN"
                                                   ELSE "WEB_LOGIN",
                                "POST", 0)
                    /\ checked' = FALSE
    /\ UNCHANGED <<throttleVars, throttleHist>>

\* _authorize after the login request has returned: the two-factor request
AuthorizeTwoFA ==
    /\ pc = "resume"
    /\ call.hint = "WEB_LOGIN"
    /\ ReqStart("TwoFA", "POST", 0)
    /\ checked' = FALSE
    /\ UNCHANGED <<cookie_path, Authorization, _type, client>>
    /\ UNCHANGED <<throttleVars, throttleHist>>

\* _authorize after its last request has returned: the token is kept (and,
\* for a web login, the cookie file written by _set_cookie)
AuthorizeFinish ==
    /\ pc = "resume"
    /\ call.hint \in {"API_LOGIN", "TwoFA"}
    /\ IF call.hint = "TwoFA"
       THEN /\ cookie_path' = "fresh"
            /\ Ready("enctoken", "KITE_WEB")
       ELSE /\ Ready("token", "KITE_CONNECT")
            /\ UNCHANGED cookie_path
    /\ pc' = "idle"
    /\ outcome' = Exc("Constructed", 0, call.hint)
    /\ UNCHANGED <<call, nTransport, nSleep, nPenalty, nDelete, nUnlink, n429>>
    /\ UNCHANGED checked
    /\ UNCHANGED <<throttleVars, throttleHist>>

\* An endpoint method of a constructed client: th.check, then self._req up
\* to the transport call
EndpointMethod(e) ==
    /\ pc = "idle"
    /\ client = "ready"
    /\ LET r == check(config, e.key, now)
       IN  IF r.raised # "none"
           THEN /\ NoRequest(Exc(r.raised, 0, r.arg))
                /\ config' = r.config
                /\ UNCHANGED <<now, expired>>
           ELSE /\ config' = r.config
                /\ now' = now + r.slept
                /\ ReqStart(e.name, e.method, Len(r.waits))
                /\ checked' = TRUE
    /\ UNCHANGED <<max_penalty_count, penalty_count, throttleHist>>
    /\ UNCHANGED <<cookie_path, Authorization, _type, client>>

\* The object under construction is dropped when _req raises
AfterRaise == IF client = "constructing" THEN "none" ELSE client

\* The transport returns a response of status code: _req from r.ok on
ReqReceive(code) ==
    /\ pc = "inflight"
    /\ code = 429 => n429 < Max429
    /\ LET r == _req_respond(code, penalty_count, max_penalty_count, cookie_path)
       IN  /\ outcome' = r.outcome
           /\ penalty_count' = r.penalty_count
           /\ cookie_path' = r.cookie_path
           /\ now' = now + r.slept
           /\ nSleep' = nSleep + r.sleeps
           /\ nPenalty' = nPenalty + r.penalised
           /\ nDelete' = nDelete + r.deleted
           /\ nUnlink' = nUnlink + r.unlinked
           /\ IF r.outcome.kind = "Response"
              THEN /\ pc' = IF call.hint \in LoginHints THEN "resume" ELSE "idle"
                   /\ client' = client
              ELSE /\ pc' = "idle"
                   /\ client' = AfterRaise
    /\ call' = [call EXCEPT !.status = code]
    /\ n429' = IF code = 429 THEN n429 + 1 ELSE n429
    /\ expired' = IF code = 403 THEN TRUE ELSE expired
    /\ UNCHANGED <<config, max_penalty_count, throttleHist>>
    /\ UNCHANGED <<Authorization, _type, nTransport, checked>>

\* The transport raises ReadTimeout, which it can when a timeout was passed
ReqReadTimeout ==
    /\ pc = "inflight"
    /\ call.timeout
    /\ pc' = "idle"
    /\ outcome' = Exc("TimeoutError", 0, call.hint)
    /\ client' = AfterRaise
    /\ UNCHANGED <<throttleVars, throttleHist>>
    /\ UNCHANGED <<cookie_path, Authorization, _type, call, kiteHist>>

\* Midnight passes: the expiry _set_cookie wrote is in the past
DayPasses ==
    /\ cookie_path = "fresh"
    /\ cookie_path' = "expired"
    /\ UNCHANGED <<throttleVars, throttleHist, kiteHist>>
    /\ UNCHANGED <<Authorization, _type, client, pc, call, outcome>>

\* Another client of the same installation completes a web login and its
\* _set_cookie writes the cookie file
OtherClientLogin ==
    /\ cookie_path # "fresh"
    /\ cookie_path' = "fresh"
    /\ UNCHANGED <<throttleVars, throttleHist, kiteHist>>
    /\ UNCHANGED <<Authorization, _type, client, pc, call, outcome>>

Next ==
    \/ \E a \in InitArgs : KiteInit(a)
    \/ AuthorizeTwoFA
    \/ AuthorizeFinish
    \/ \E e \in Endpoints : EndpointMethod(e)
    \/ \E code \in Statuses : ReqReceive(code)
    \/ ReqReadTimeout
    \/ DayPasses
    \/ OtherClientLogin

Spec == Init /\ [][Next]_vars

----------------------------------------------------------------------------
(* SpecReq: Kite._req on its own, called with each of its methods on a    *)
(* client constructed from an enctoken                                    *)

\* The methods _req tells apart: "PUT", "DELETE", "POST", any other a GET
Methods == {"GET", "POST", "PUT", "DELETE"}

InitReq ==
    /\ LET th == Throttle(throttle_config, ShippedMaxPenalty, 0)
       IN  /\ config = th.config
           /\ max_penalty_count = th.max_penalty_count
           /\ penalty_count = th.penalty_count
           /\ now = 0
    /\ calls = [key \in CheckKeys |-> 0]
    /\ lastCheck = NoCheck
    /\ penalises = 0
    /\ lastPenalise = FALSE
    /\ pace = [key \in CheckKeys |-> "idle"]
    /\ NoThreads
    /\ cookie_path \in {"absent", "fresh", "expired"}
    /\ Authorization = "enctoken"
    /\ _type = "KITE_WEB"
    /\ client = "ready"
    /\ pc = "idle"
    /\ call = NoCall
    /\ outcome = Exc("Constructed", 0, "enctoken")
    /\ nTransport = 0
    /\ nSleep = 0
    /\ nPenalty = 0
    /\ nDelete = 0
    /\ nUnlink = 0
    /\ n429 = 0
    /\ expired = FALSE
    /\ checked = FALSE

\* self._req(url, method, ...) up to the transport call
Req(method) ==
    /\ pc = "idle"
    /\ ReqStart(method, method, 0)
    /\ checked' = FALSE
    /\ UNCHANGED <<cookie_path, Authorization, _type, client>>
    /\ UNCHANGED <<throttleVars, throttleHist>>

NextReq ==
    \/ \E method \in Methods : Req(method)
    \/ \E code \in Statuses : ReqReceive(code)
    \/ ReqReadTimeout

SpecReq == InitReq /\ [][NextReq]_vars

----------------------------------------------------------------------------
(* Claims about Throttle, checked under SpecThrottle *)

\* C5: the k-th call of penalise on a fresh Throttle returns true exactly
\* when k exceeds max_penalty_count: the first max_penalty_count calls
\* return false and the next one returns true.
C5_PenaliseReturn ==
    penalises > 0 => (lastPenalise = (penalises > max_penalty_count))

\* C5 witness: under the shipped limit, call 16 has returned true.
C5_Witness ==
    /\ max_penalty_count = ShippedMaxPenalty
    /\ penalises = ShippedMaxPenalty + 1
    /\ lastPenalise = TRUE

\* C6: in a category with rps and rpm, a check call whose post-increment
\* count is a multiple of rpm takes the minute-boundary wait alone, also
\* when the count is a multiple of rps; no check call takes both waits.
C6_MinuteWaitWins ==
    (lastCheck.n > 0 /\ lastCheck.raised = "none") =>
        LET k == config[lastCheck.key]
        IN  /\ Len(lastCheck.waits) <= 1
            /\ ("rpm" \in DOMAIN k /\ k.count % k.rpm = 0)
                   => lastCheck.waits = <<"min">>

\* C6 witness: the 180th check of the shipped order category (rps 8,
\* rpm 180) has taken the minute-boundary wait.
C6_Witness ==
    /\ lastCheck.key = "order"
    /\ lastCheck.raised = "none"
    /\ config["order"].rps = 8
    /\ config["order"].count = 180
    /\ lastCheck.waits = <<"min">>

\* C7: in a category with rps = N and no rpm, check calls 1..N-1 after
\* registration return without a sleep, and call N sleeps exactly the
\* elapsed time rounded up to the next whole second minus the elapsed
\* time, so that it returns a whole number of seconds after registration.
C7_NthCallRoundsUp ==
    (lastCheck.n > 0 /\ lastCheck.key \in DOMAIN config
        /\ "rpm" \notin DOMAIN config[lastCheck.key]) =>
        LET k == config[lastCheck.key]
            elapsed == lastCheck.at - k.start
            returned == lastCheck.at + lastCheck.slept - k.start
        IN  /\ lastCheck.n < k.rps =>
                /\ lastCheck.raised = "none"
                /\ lastCheck.slept = 0
            /\ lastCheck.n = k.rps =>
                /\ lastCheck.raised = "none"
                /\ lastCheck.slept = round(elapsed, sec) - elapsed
                /\ returned >= 0
                /\ returned % sec = 0

\* The statement of C7 for the categories whose dict carries a count: it
\* holds there, so C7 fails through the missing count alone.
C7_WithCount ==
    (lastCheck.key \in DOMAIN config
        /\ "count" \in DOMAIN config[lastCheck.key]) => C7_NthCallRoundsUp

\* Call N of a counted category has slept a positive time to the boundary.
C7_WithCountReached ==
    /\ lastCheck.key = "historical"
    /\ lastCheck.n = 3
    /\ lastCheck.waits = <<"sec">>
    /\ lastCheck.slept > 0

\* The ceiling C15 states for the checks of a category that have returned
\* by now: rps for each second begun since registration
WithinRate(key) ==
    calls[key] <= config[key].rps * ((now - config[key].start) \div sec + 1)

\* C15 as stated: for a category with rps = N and no rpm driven by one
\* caller, whatever the timing of the calls (also with no clock advance
\* between them), at every instant t since registration at most
\* N * (floor(t / 1 s) + 1) check calls have returned.
C15_RateBound ==
    \A key \in RpsOnly : WithinRate(key)

\* C15 amended: the same ceiling, for a caller that makes every check of
\* the category at a clock reading later than the one at which its
\* previous check of the category returned.
C15_PacedRateBound ==
    \A key \in RpsOnly : pace[key] # "rushed" => WithinRate(key)

\* C15 witness: a paced caller of the quote category (rps 1) has had its
\* second check return, after a sleep, one second after registration: the
\* ceiling is met.
C15_Witness ==
    /\ "quote" \in RpsOnly
    /\ pace["quote"] # "rushed"
    /\ calls["quote"] = 2
    /\ lastCheck.key = "quote"
    /\ lastCheck.slept > 0
    /\ now - config["quote"].start = sec

----------------------------------------------------------------------------
(* Claims about Kite._req and the endpoint methods, checked under Spec *)

\* A step in which _req classifies a response of a status in the set S
Classified(S) ==
    /\ pc = "inflight"
    /\ pc' # "inflight"
    /\ call'.status \in S

C2_403DeletesOnce ==
    [][Classified({403}) =>
           /\ nDelete' = 1
           /\ cookie_path' = "absent"
           /\ SessionExpired(outcome')]_vars

\* C2 witness: a request was answered 403 while the cookie file was there;
\* the file was unlinked and the call failed with SessionExpired.
C2_Witness ==
    /\ call.status = 403
    /\ nDelete = 1
    /\ nUnlink = 1
    /\ cookie_path = "absent"
    /\ SessionExpired(outcome)

C10_NoUnknownCategory ==
    ~UnknownCategory(outcome)

\* An endpoint method that passes th.check a key that is not registered
UnregisteredCheck ==
    \E e \in Endpoints :
        /\ e.key # NoArg
        /\ e.key \notin DOMAIN config
        /\ EndpointMethod(e)

\* C11: a check call with a category name that is not registered fails with
\* UnknownCategory, leaves every category's dict (count, window start) and
\* the penalty counter as they were, sleeps not at all, and the request it
\* guards is not handed to the transport.
C11_UnknownCategoryTouchesNothing ==
    [][UnregisteredCheck =>
           /\ UnknownCategory(outcome')
           /\ UNCHANGED <<config, penalty_count, now>>
           /\ nSleep' = 0
           /\ nTransport' = 0
           /\ pc' = "idle"]_vars

\* C11 witness: order_trades, which passes "orders", has ended in
\* UnknownCategory with no request made.
C11_Witness ==
    /\ client = "ready"
    /\ pc = "idle"
    /\ outcome = Exc("KeyError", 0, "orders")
    /\ call = NoCall
    /\ nTransport = 0
    /\ nSleep = 0

\* C11 under SpecThrottle, where the dicts carry counts: a check call with
\* a key that is not registered raises KeyError with that key and changes
\* neither a dict nor the penalty counter nor the clock.
C11_ThrottleUntouched ==
    [][(calls' # calls /\ lastCheck'.key \notin DOMAIN config) =>
           /\ lastCheck'.raised = "KeyError"
           /\ lastCheck'.arg = lastCheck'.key
           /\ lastCheck'.slept = 0
           /\ UNCHANGED <<config, penalty_count, now>>]_vars

\* What C18 says of every state: each category's dict has a count, equal
\* to the number of check calls made on the category (0 after
\* construction, 1 after the first, k after k), and the window start the
\* constructor gave to all of them; a check of a registered category
\* succeeds.
C18_CountIsCalls ==
    /\ \A key \in DOMAIN config :
           /\ "count" \in DOMAIN config[key]
           /\ config[key].count = calls[key]
           /\ config[key].start <= now
           /\ \A other \in DOMAIN config :
                  config[other].start = config[key].start
    /\ (lastCheck.n > 0 /\ lastCheck.key \in DOMAIN config)
           => lastCheck.raised = "none"

\* What C18 says of every step: no count and not the penalty counter
\* decreases, and no window start changes.
C18_NeverDecreases ==
    /\ penalty_count' >= penalty_count
    /\ DOMAIN config' = DOMAIN config
    /\ \A key \in DOMAIN config :
           /\ config'[key].start = config[key].start
           /\ "count" \in DOMAIN config[key] =>
                  /\ "count" \in DOMAIN config'[key]
                  /\ config'[key].count >= config[key].count

\* C18: after construction from a configuration that gives only rate
\* ceilings every category has count 0 and the construction time as its
\* window start, the first check succeeds and leaves count 1, after k
\* checks the count is k, and neither a count nor the penalty counter ever
\* decreases.
C18_CountsFromZero ==
    /\ []C18_CountIsCalls
    /\ [][C18_NeverDecreases]_vars

\* The steps of C18 alone: holds, also for the dicts without a count.
C18_Monotone ==
    [][C18_NeverDecreases]_vars

\* The states of C18 for the dicts that carry a count: holds there, so C18
\* fails through the missing count alone.
C18_WithCount ==
    (\A key \in DOMAIN config : "count" \in DOMAIN config[key])
        => C18_CountIsCalls

\* C14: every invocation of the transport is preceded, within the same
\* call, by a th.check that has returned; the requests of _authorize
\* included.
C14_CheckBeforeTransport ==
    nTransport > 0 => checked

----------------------------------------------------------------------------
(* Claims about the sleeps of check, checked under SpecUptime *)

\* The wait of the last check call: its window, the elapsed time it read
\* and the sleep it computed from them
LastWait ==
    LET base == IF lastCheck.waits[1] = "min" THEN _min ELSE sec
        elapsed == lastCheck.at - config[lastCheck.key].start
    IN  [base |-> base, elapsed |-> elapsed,
         d |-> round(elapsed, base) - elapsed]

\* What C16 says of a check call that took a wait
C16_Body ==
    /\ 0 <= LastWait.d
    /\ LastWait.d < LastWait.base
    /\ (LastWait.d = 0) <=> (LastWait.elapsed % LastWait.base = 0)
    /\ lastCheck.raised = "none"
    /\ lastCheck.slept = LastWait.d

\* C16: every sleep check computes is non-negative and shorter than its
\* window (a second for the per-second wait, a minute for the per-minute
\* wait), for every elapsed time, and it is 0 exactly when the elapsed
\* time is a whole multiple of the window.
C16_SleepWithinWindow ==
    (lastCheck.n > 0 /\ lastCheck.waits # <<>>) => C16_Body

\* C16 for the elapsed times whose float quotient has the ceiling of the
\* exact quotient: holds there, so C16 fails through the float alone.
C16_WhereFloatIsExact ==
    (/\ lastCheck.n > 0
     /\ lastCheck.waits # <<>>
     /\ round(LastWait.elapsed, LastWait.base)
            = round_exact(LastWait.elapsed, LastWait.base)) => C16_Body

\* Both waits have computed sleeps inside their windows, after a long
\* uptime too.
C16_WhereFloatIsExactReached ==
    /\ lastCheck.waits = <<"min">>
    /\ lastCheck.slept > sec
    /\ lastCheck.at > MaxElapsed \div 2

----------------------------------------------------------------------------
(* Claims about Kite._req, checked under SpecReq *)

\* C17: every call of _req comes to an end for each of the methods GET,
\* POST, PUT and DELETE: the caller's timeout is passed to the transport
\* call of every method, so that a call whose upstream never answers can
\* end in Timeout.
C17_TimeoutOnEveryMethod ==
    pc = "inflight" => (call.timeout /\ ENABLED ReqReadTimeout)

\* C17 for the methods other than DELETE: holds, so C17 fails through the
\* transport call of DELETE alone.
C17_ExceptDelete ==
    (pc = "inflight" /\ call.method # "DELETE")
        => (call.timeout /\ ENABLED ReqReadTimeout)

\* A PUT whose upstream did not answer has ended in Timeout.
C17_ExceptDeleteReached ==
    /\ call.method = "PUT"
    /\ pc = "idle"
    /\ Timeout(outcome)

----------------------------------------------------------------------------
(* Claims about callers sharing the Throttle, checked under SpecConc *)

\* Every call that was started has returned
AllReturned ==
    \A t \in Callers : thread[t].pc = "idle"

\* C12: calls of check and penalise made concurrently on the shared
\* Throttle lose no increment: when k checks of a category and j penalise
\* calls have returned, the category's count is k and the penalty counter
\* is j, under every interleaving.
C12_NoLostIncrement ==
    AllReturned =>
        /\ \A key \in DOMAIN config : config[key].count = calls[key]
        /\ penalty_count = penalises

\* C13: for concurrent checks of one category with rps = N and no rpm,
\* the increment and the boundary test of a call are one atomic step:
\* among k calls that have returned, exactly floor(k / N) took the
\* boundary wait.
C13_OneWaitPerN ==
    AllReturned =>
        \A key \in RpsOnly : waited[key] = calls[key] \div config[key].rps

\* C13 in the runs that lose no increment: violated as well, so C13 fails
\* on its own and not through C12.
C13_WithoutLostIncrement ==
    (AllReturned /\ \A key \in DOMAIN config : config[key].count = calls[key])
        => \A key \in RpsOnly : waited[key] = calls[key] \div config[key].rps

====
